---- MODULE Spec2Model ----
(***************************************************************************)
(* Model of the Gazell link shim (rmk-gazell-sys/c/gazell_shim.c).         *)
(*                                                                         *)
(* One node is one chip running the shim: its static gz_state, the Nordic  *)
(* Gazell engine it drives (the nrf_gzll_* primitives, an external         *)
(* library modelled by what the shim relies on), and the application       *)
(* thread that calls the gz_* operations.  The engine's callbacks run in   *)
(* interrupt context: they are atomic with respect to the application      *)
(* thread and may fire between any two steps of an operation.              *)
(***************************************************************************)
EXTENDS Integers, Sequences, FiniteSets, TLC

VARIABLES gz_state, gzll, app, hist

vars == <<gz_state, gzll, app, hist>>

----------------------------------------------------------------------------
(* Program constants *)

MAX_PAYLOAD_LENGTH == 32

NRF_GZLL_CONST_FIFO_LENGTH == 3

GZ_MODE_DEVICE == 0

GZ_MODE_HOST == 1

NRF_GZLL_MODE_DEVICE == 0

NRF_GZLL_MODE_HOST == 1

(* Bounds of the model *)

\* Iterations of gz_send's polling loop (the code's budget is 100000).
SendTimeout == 2

Nodes == {1, 2}

\* A slot of the caller's output buffer that gz_recv has not written.
Unwritten == 0 - 1

----------------------------------------------------------------------------
(* Inputs *)

\* A caller's data buffer of MAX_PAYLOAD_LENGTH + 1 bytes.
Buffer(b) == [i \in 1..(MAX_PAYLOAD_LENGTH + 1) |-> (b + i) % 256]

\* The first len bytes of a buffer: what the engine copies into a FIFO slot.
Payload(data, len) == [i \in 1..len |-> data[i]]

NullData == [null |-> TRUE, bytes |-> <<>>]

SendData == {NullData, [null |-> FALSE, bytes |-> Buffer(16)]}

SendLens == {0, 1, MAX_PAYLOAD_LENGTH, MAX_PAYLOAD_LENGTH + 1}

\* Packets a peer Device can deliver to a Host: a 1-byte one and a full one,
\* of different contents.
AirPackets == {Payload(Buffer(144), 1), Payload(Buffer(160), MAX_PAYLOAD_LENGTH)}

\* Calls of gz_recv: null output pointers, and buffers smaller than, equal to
\* and larger than the packets.
RecvArgs ==
    {[out_null |-> TRUE, max_len |-> MAX_PAYLOAD_LENGTH]} \cup
    {[out_null |-> FALSE, max_len |-> m] : m \in {0, 1, MAX_PAYLOAD_LENGTH}}

\* Calls of gz_send: a null pointer, and the lengths around the bounds.
SendArgs ==
    {[data |-> NullData, len |-> 1]} \cup
    {[data |-> d, len |-> l] : d \in SendData \ {NullData}, l \in SendLens}

Modes == {GZ_MODE_DEVICE, GZ_MODE_HOST, 2}

NullConfig == [null |-> TRUE, channel |-> 0, data_rate |-> 0, max_retries |-> 0, ack_timeout_us |-> 0]

ValidConfig == [null |-> FALSE, channel |-> 100, data_rate |-> 2, max_retries |-> 15, ack_timeout_us |-> 4000]

\* The null pointer, two configurations on the bounds, and configurations
\* that break one bound or two.
Configs ==
    {NullConfig,
     ValidConfig,
     [ValidConfig EXCEPT !.channel = 0, !.data_rate = 0, !.max_retries = 0, !.ack_timeout_us = 250],
     [ValidConfig EXCEPT !.channel = 101],
     [ValidConfig EXCEPT !.data_rate = 3],
     [ValidConfig EXCEPT !.max_retries = 16],
     [ValidConfig EXCEPT !.ack_timeout_us = 249],
     [ValidConfig EXCEPT !.ack_timeout_us = 4001],
     [ValidConfig EXCEPT !.channel = 255, !.max_retries = 255]}

----------------------------------------------------------------------------
(* State *)

\* static struct gz_state = {0}
gz_state_zero ==
    [initialized |-> FALSE,
     mode        |-> GZ_MODE_DEVICE,
     rx_buffer   |-> [i \in 1..MAX_PAYLOAD_LENGTH |-> 0],
     rx_length   |-> 0,
     rx_ready    |-> FALSE,
     tx_success  |-> FALSE,
     tx_failed   |-> FALSE]

\* The engine before the first nrf_gzll_init: disabled, nothing queued.
gzll_reset ==
    [enabled     |-> FALSE,
     disable_req |-> FALSE,
     mode        |-> NRF_GZLL_MODE_DEVICE,
     tx_fifo     |-> <<>>,
     rx_fifo     |-> <<>>]

\* Nothing programmed by a call.
NoParams ==
    [datarate |-> "none", channel_table |-> <<>>, max_tx_attempts |-> 0,
     timeslot_period |-> 0]

\* The application thread: where it is in the operation it called, the
\* arguments, the engine primitives the call has invoked, and its results.
app_idle ==
    [pc       |-> "idle",
     op       |-> "none",
     ret      |-> "none",
     config   |-> NullConfig,
     mode     |-> GZ_MODE_DEVICE,
     data     |-> NullData,
     len      |-> 0,
     out_null |-> FALSE,
     max_len  |-> 0,
     out_buf  |-> [i \in 1..MAX_PAYLOAD_LENGTH |-> Unwritten],
     out_len  |-> Unwritten,
     i        |-> 0,
     timeout  |-> 0,
     ready    |-> FALSE,
     calls    |-> <<>>,
     params   |-> NoParams,  \* the radio parameters the call programmed
     \* History of the call, read by the properties only:
     enqueued  |-> FALSE,    \* the send put its frame in the TX FIFO
     queued    |-> 0,        \* frames outstanding when the send was called
     frame_pos |-> 0,        \* position in the TX FIFO of the send's frame
     own       |-> "none",   \* completion of the send's own frame during the wait
     ready0    |-> FALSE,    \* rx_ready when the recv tested it
     pkt0      |-> <<>>,     \* last packet delivered when the recv was called
     consumed0 |-> FALSE,    \* ... and whether a recv had returned it already
     retry     |-> FALSE,    \* the recv follows one that returned FrameTooLarge,
                             \* with no delivery in between
     intr      |-> FALSE]    \* a packet was delivered since the recv was called

\* History of the run, read by the properties only.
hist_zero ==
    [role_set   |-> FALSE,    \* a set-mode succeeded since the last successful init
     last_pkt   |-> <<>>,     \* last packet the engine delivered to the handler
     consumed   |-> TRUE]     \* ... and a recv has returned it

Init ==
    /\ gz_state = [n \in Nodes |-> gz_state_zero]
    /\ gzll = [n \in Nodes |-> gzll_reset]
    /\ app = [n \in Nodes |-> app_idle]
    /\ hist = [n \in Nodes |-> hist_zero]

Call(op) == [app_idle EXCEPT !.pc = op, !.op = op]

Return(a, r) == [a EXCEPT !.pc = "idle", !.ret = r]

\* The call invokes the engine primitives prims, in this order.
Invoke(a, prims) == [a EXCEPT !.calls = @ \o prims]

----------------------------------------------------------------------------
(* The engine primitives the shim uses *)

\* nrf_gzll_init: the engine is set up in the given mode with empty FIFOs.
\* It neither enables nor disables the radio.
nrf_gzll_init(eng, mode) ==
    [eng EXCEPT !.mode = mode, !.tx_fifo = <<>>, !.rx_fifo = <<>>]

\* nrf_gzll_disable: asks the engine to stop; it reports disabled later.
nrf_gzll_disable(eng) ==
    IF eng.enabled THEN [eng EXCEPT !.disable_req = TRUE] ELSE eng

nrf_gzll_is_enabled(eng) == eng.enabled

nrf_gzll_enable(eng) == [eng EXCEPT !.enabled = TRUE, !.disable_req = FALSE]

\* Faulty variant: one packet more than the FIFO holds is accepted.
tx_fifo_accepts_one_more(eng) == Len(eng.tx_fifo) <= NRF_GZLL_CONST_FIFO_LENGTH

\* nrf_gzll_add_packet_to_tx_fifo: accepted unless the FIFO is full.
tx_fifo_accepts(eng) == Len(eng.tx_fifo) < NRF_GZLL_CONST_FIFO_LENGTH

nrf_gzll_add_packet_to_tx_fifo(eng, data, len) ==
    [eng EXCEPT !.tx_fifo = Append(@, Payload(data, len))]

nrf_gzll_get_tx_fifo_packet_count(eng) == Len(eng.tx_fifo)

nrf_gzll_flush_tx_fifo(eng) == [eng EXCEPT !.tx_fifo = <<>>]

nrf_gzll_flush_rx_fifo(eng) == [eng EXCEPT !.rx_fifo = <<>>]

\* nrf_gzll_fetch_packet_from_rx_fifo succeeds when a packet is queued that
\* fits the length passed in.
fetch_ok(eng, length) ==
    /\ eng.rx_fifo # <<>>
    /\ Len(Head(eng.rx_fifo)) <= length

----------------------------------------------------------------------------
(* Gazell callbacks (interrupt context) *)

nrf_gzll_device_tx_success(st) == [st EXCEPT !.tx_success = TRUE]

nrf_gzll_device_tx_failed(st) == [st EXCEPT !.tx_failed = TRUE]

\* Faulty variant: rx_length keeps the capacity passed in, not the packet's length.
nrf_gzll_host_rx_data_ready_keeps_length(st, eng) ==
    LET s1 == [st EXCEPT !.rx_length = MAX_PAYLOAD_LENGTH] IN
    IF fetch_ok(eng, s1.rx_length)
    THEN LET pkt == Head(eng.rx_fifo) IN
         [s1 EXCEPT !.rx_buffer = [i \in 1..MAX_PAYLOAD_LENGTH |->
                                      IF i <= Len(pkt) THEN pkt[i] ELSE @[i]],
                    !.rx_ready  = TRUE]
    ELSE s1

\* The handler's effect on gz_state, given the engine holding the packet.
nrf_gzll_host_rx_data_ready(st, eng) ==
    LET s1 == [st EXCEPT !.rx_length = MAX_PAYLOAD_LENGTH] IN
    IF fetch_ok(eng, s1.rx_length)
    THEN LET pkt == Head(eng.rx_fifo) IN
         [s1 EXCEPT !.rx_buffer = [i \in 1..MAX_PAYLOAD_LENGTH |->
                                      IF i <= Len(pkt) THEN pkt[i] ELSE @[i]],
                    !.rx_length = Len(pkt),
                    !.rx_ready  = TRUE]
    ELSE s1

----------------------------------------------------------------------------
(* gz_init *)

\* Faulty variant: the channel bound is off by one (101 accepted).
gz_init_validate_channel(config) ==
    IF config.null THEN "GZ_ERR_INVALID_CONFIG"
    ELSE IF config.channel > 101 THEN "GZ_ERR_INVALID_CONFIG"
    ELSE IF config.data_rate > 2 THEN "GZ_ERR_INVALID_CONFIG"
    ELSE IF config.max_retries > 15 THEN "GZ_ERR_INVALID_CONFIG"
    ELSE IF config.ack_timeout_us < 250 \/ config.ack_timeout_us > 4000
         THEN "GZ_ERR_INVALID_CONFIG"
    ELSE "GZ_OK"

\* The checks of the configuration, in the order of the code.
gz_init_validate(config) ==
    IF config.null THEN "GZ_ERR_INVALID_CONFIG"
    ELSE IF config.channel > 100 THEN "GZ_ERR_INVALID_CONFIG"
    ELSE IF config.data_rate > 2 THEN "GZ_ERR_INVALID_CONFIG"
    ELSE IF config.max_retries > 15 THEN "GZ_ERR_INVALID_CONFIG"
    ELSE IF config.ack_timeout_us < 250 \/ config.ack_timeout_us > 4000
         THEN "GZ_ERR_INVALID_CONFIG"
    ELSE "GZ_OK"

\* "Clear state": the four assignments before the engine is brought up.
gz_init_clear(st) ==
    [st EXCEPT !.initialized = FALSE, !.rx_ready = FALSE,
               !.tx_success = FALSE, !.tx_failed = FALSE]

\* The switch on config->data_rate.
gz_init_rate(data_rate) ==
    CASE data_rate = 0 -> "NRF_GZLL_DATARATE_250KBIT"
      [] data_rate = 1 -> "NRF_GZLL_DATARATE_1MBIT"
      [] data_rate = 2 -> "NRF_GZLL_DATARATE_2MBIT"
      [] OTHER -> "default"

\* timeslot = ack_timeout_us / 500, at least 1.
gz_init_timeslot(ack_timeout_us) ==
    LET timeslot == ack_timeout_us \div 500 IN
    IF timeslot < 1 THEN 1 ELSE timeslot

\* The parameters gz_init programs into the engine after bring-up.
gz_init_params(config) ==
    [datarate        |-> gz_init_rate(config.data_rate),
     channel_table   |-> <<config.channel>>,
     max_tx_attempts |-> config.max_retries,
     timeslot_period |-> gz_init_timeslot(config.ack_timeout_us)]

ProgrammingCalls ==
    <<"nrf_gzll_set_datarate", "nrf_gzll_set_channel_table",
      "nrf_gzll_set_channel_table_size", "nrf_gzll_set_max_tx_attempts",
      "nrf_gzll_set_timeslot_period">>

AddressCalls ==
    <<"nrf_gzll_set_base_address_0", "nrf_gzll_set_address_prefix_byte",
      "nrf_gzll_set_tx_power">>

\* gz_init, up to the engine bring-up: validation, then the state is cleared.
gz_init(n, config) ==
    /\ app[n].pc = "idle"
    /\ LET a == [Call("gz_init") EXCEPT !.config = config] IN
       IF gz_init_validate(config) # "GZ_OK"
       THEN /\ app' = [app EXCEPT ![n] = Return(a, gz_init_validate(config))]
            /\ UNCHANGED <<gz_state, gzll, hist>>
       ELSE /\ app' = [app EXCEPT ![n] = [a EXCEPT !.pc = "gz_init_bringup"]]
            /\ gz_state' = [gz_state EXCEPT ![n] = gz_init_clear(@)]
            /\ UNCHANGED <<gzll, hist>>

\* gz_init from nrf_gzll_init to the return; ok is what nrf_gzll_init returns.
gz_init_bringup(n, ok) ==
    /\ app[n].pc = "gz_init_bringup"
    /\ LET a      == Invoke(app[n], <<"nrf_gzll_init">>)
           config == app[n].config
       IN
       IF ~ok
       THEN /\ app' = [app EXCEPT ![n] = Return(a, "GZ_ERR_HARDWARE")]
            /\ UNCHANGED <<gz_state, gzll, hist>>
       ELSE IF gz_init_rate(config.data_rate) = "default"
       THEN /\ app' = [app EXCEPT ![n] = Return(Invoke(a, AddressCalls), "GZ_ERR_INVALID_CONFIG")]
            /\ gzll' = [gzll EXCEPT ![n] = nrf_gzll_init(@, NRF_GZLL_MODE_DEVICE)]
            /\ UNCHANGED <<gz_state, hist>>
       ELSE /\ app' = [app EXCEPT ![n] =
                         [Return(Invoke(a, AddressCalls \o ProgrammingCalls), "GZ_OK")
                             EXCEPT !.params = gz_init_params(config)]]
            /\ gzll' = [gzll EXCEPT ![n] = nrf_gzll_init(@, NRF_GZLL_MODE_DEVICE)]
            /\ gz_state' = [gz_state EXCEPT ![n].initialized = TRUE]
            /\ hist' = [hist EXCEPT ![n].role_set = FALSE]

----------------------------------------------------------------------------
(* gz_set_mode *)

\* Faulty variant: every valid mode maps to the engine's Device mode.
gz_set_mode_map_device(mode) ==
    IF mode = GZ_MODE_DEVICE THEN NRF_GZLL_MODE_DEVICE
    ELSE IF mode = GZ_MODE_HOST THEN NRF_GZLL_MODE_DEVICE
    ELSE 0 - 1

\* The mapping of the requested mode to the engine's; "invalid" is the else branch.
gz_set_mode_map(mode) ==
    IF mode = GZ_MODE_DEVICE THEN NRF_GZLL_MODE_DEVICE
    ELSE IF mode = GZ_MODE_HOST THEN NRF_GZLL_MODE_HOST
    ELSE 0 - 1

\* gz_set_mode up to the wait for the engine to report disabled.
gz_set_mode(n, mode) ==
    /\ app[n].pc = "idle"
    /\ LET a == [Call("gz_set_mode") EXCEPT !.mode = mode] IN
       IF ~gz_state[n].initialized
       THEN /\ app' = [app EXCEPT ![n] = Return(a, "GZ_ERR_NOT_INITIALIZED")]
            /\ UNCHANGED <<gz_state, gzll, hist>>
       ELSE /\ app' = [app EXCEPT ![n] =
                         [Invoke(a, <<"nrf_gzll_disable">>) EXCEPT !.pc = "gz_set_mode_wait"]]
            /\ gzll' = [gzll EXCEPT ![n] = nrf_gzll_disable(@)]
            /\ UNCHANGED <<gz_state, hist>>

\* gz_set_mode once nrf_gzll_is_enabled() is false; ok_init and ok_enable are
\* what nrf_gzll_init and nrf_gzll_enable return.
gz_set_mode_wait(n, ok_init, ok_enable) ==
    /\ app[n].pc = "gz_set_mode_wait"
    /\ ~nrf_gzll_is_enabled(gzll[n])
    /\ LET a    == app[n]
           mode == app[n].mode
       IN
       IF gz_set_mode_map(mode) < 0
       THEN /\ app' = [app EXCEPT ![n] = Return(a, "GZ_ERR_INVALID_CONFIG")]
            /\ UNCHANGED <<gz_state, gzll, hist>>
       ELSE IF ~ok_init
       THEN /\ app' = [app EXCEPT ![n] =
                         Return(Invoke(a, <<"nrf_gzll_init">>), "GZ_ERR_HARDWARE")]
            /\ UNCHANGED <<gz_state, gzll, hist>>
       ELSE IF ~ok_enable
       THEN /\ app' = [app EXCEPT ![n] =
                         Return(Invoke(a, <<"nrf_gzll_init", "nrf_gzll_enable">>),
                                "GZ_ERR_HARDWARE")]
            /\ gzll' = [gzll EXCEPT ![n] = nrf_gzll_init(@, gz_set_mode_map(mode))]
            /\ UNCHANGED <<gz_state, hist>>
       ELSE /\ app' = [app EXCEPT ![n] =
                         Return(Invoke(a, <<"nrf_gzll_init", "nrf_gzll_enable">>), "GZ_OK")]
            /\ gzll' = [gzll EXCEPT ![n] =
                          nrf_gzll_enable(nrf_gzll_init(@, gz_set_mode_map(mode)))]
            /\ gz_state' = [gz_state EXCEPT ![n].mode = mode]
            /\ hist' = [hist EXCEPT ![n].role_set = TRUE]

----------------------------------------------------------------------------
(* gz_is_ready, gz_flush, gz_deinit *)

gz_is_ready(n) ==
    /\ app[n].pc = "idle"
    /\ LET a == Call("gz_is_ready") IN
       IF ~gz_state[n].initialized
       THEN app' = [app EXCEPT ![n] = [Return(a, "bool") EXCEPT !.ready = FALSE]]
       ELSE app' = [app EXCEPT ![n] =
                      [Return(Invoke(a, <<"nrf_gzll_get_tx_fifo_packet_count">>), "bool")
                          EXCEPT !.ready = nrf_gzll_get_tx_fifo_packet_count(gzll[n])
                                             < NRF_GZLL_CONST_FIFO_LENGTH]]
    /\ UNCHANGED <<gz_state, gzll, hist>>

\* Faulty variant: tx_failed is not cleared.
gz_flush_clear_keeps_failed(st) ==
    [st EXCEPT !.rx_ready = FALSE, !.tx_success = FALSE]

\* "Clear state flags" of gz_flush.
gz_flush_clear(st) ==
    [st EXCEPT !.rx_ready = FALSE, !.tx_success = FALSE, !.tx_failed = FALSE]

\* The engine after gz_flush's FIFO flushes.
gz_flush_fifos(st, eng) ==
    IF st.mode = GZ_MODE_HOST
    THEN nrf_gzll_flush_rx_fifo(nrf_gzll_flush_tx_fifo(eng))
    ELSE nrf_gzll_flush_tx_fifo(eng)

gz_flush_calls(st) ==
    IF st.mode = GZ_MODE_HOST
    THEN <<"nrf_gzll_flush_tx_fifo", "nrf_gzll_flush_rx_fifo">>
    ELSE <<"nrf_gzll_flush_tx_fifo">>

gz_flush(n) ==
    /\ app[n].pc = "idle"
    /\ LET a == Call("gz_flush") IN
       IF ~gz_state[n].initialized
       THEN /\ app' = [app EXCEPT ![n] = Return(a, "GZ_ERR_NOT_INITIALIZED")]
            /\ UNCHANGED <<gz_state, gzll, hist>>
       ELSE /\ app' = [app EXCEPT ![n] = Return(Invoke(a, gz_flush_calls(gz_state[n])), "GZ_OK")]
            /\ gzll' = [gzll EXCEPT ![n] = gz_flush_fifos(gz_state[n], @)]
            /\ gz_state' = [gz_state EXCEPT ![n] = gz_flush_clear(@)]
            /\ UNCHANGED hist

\* gz_deinit up to the wait for the engine to report disabled.
gz_deinit(n) ==
    /\ app[n].pc = "idle"
    /\ LET a == Call("gz_deinit") IN
       IF ~gz_state[n].initialized
       THEN /\ app' = [app EXCEPT ![n] = Return(a, "void")]
            /\ UNCHANGED <<gz_state, gzll, hist>>
       ELSE /\ app' = [app EXCEPT ![n] =
                         [Invoke(a, <<"nrf_gzll_disable">>) EXCEPT !.pc = "gz_deinit_wait"]]
            /\ gzll' = [gzll EXCEPT ![n] = nrf_gzll_disable(@)]
            /\ UNCHANGED <<gz_state, hist>>

\* Faulty variant: rx_ready is not cleared.
gz_deinit_clear_keeps_ready(st) ==
    [st EXCEPT !.initialized = FALSE, !.tx_success = FALSE, !.tx_failed = FALSE]

\* The four assignments that end gz_deinit.
gz_deinit_clear(st) ==
    [st EXCEPT !.initialized = FALSE, !.rx_ready = FALSE,
               !.tx_success = FALSE, !.tx_failed = FALSE]

gz_deinit_wait(n) ==
    /\ app[n].pc = "gz_deinit_wait"
    /\ ~nrf_gzll_is_enabled(gzll[n])
    /\ app' = [app EXCEPT ![n] = Return(@, "void")]
    /\ gz_state' = [gz_state EXCEPT ![n] = gz_deinit_clear(@)]
    /\ UNCHANGED <<gzll, hist>>

----------------------------------------------------------------------------
(* gz_send *)

\* Faulty variant: the length bound is off by one (33 bytes accepted).
gz_send_check_len33(st, data, len) ==
    IF ~st.initialized THEN "GZ_ERR_NOT_INITIALIZED"
    ELSE IF data.null THEN "GZ_ERR_INVALID_CONFIG"
    ELSE IF len = 0 \/ len > MAX_PAYLOAD_LENGTH + 1 THEN "GZ_ERR_FRAME_TOO_LARGE"
    ELSE IF st.mode # GZ_MODE_DEVICE THEN "GZ_ERR_INVALID_CONFIG"
    ELSE "GZ_OK"

\* Faulty variant: the role is not checked.
gz_send_check_no_mode(st, data, len) ==
    IF ~st.initialized THEN "GZ_ERR_NOT_INITIALIZED"
    ELSE IF data.null THEN "GZ_ERR_INVALID_CONFIG"
    ELSE IF len = 0 \/ len > MAX_PAYLOAD_LENGTH THEN "GZ_ERR_FRAME_TOO_LARGE"
    ELSE "GZ_OK"

\* The precondition checks of gz_send, in the order of the code.
gz_send_check(st, data, len) ==
    IF ~st.initialized THEN "GZ_ERR_NOT_INITIALIZED"
    ELSE IF data.null THEN "GZ_ERR_INVALID_CONFIG"
    ELSE IF len = 0 \/ len > MAX_PAYLOAD_LENGTH THEN "GZ_ERR_FRAME_TOO_LARGE"
    ELSE IF st.mode # GZ_MODE_DEVICE THEN "GZ_ERR_INVALID_CONFIG"
    ELSE "GZ_OK"

\* "Clear TX flags"
gz_send_clear(st) == [st EXCEPT !.tx_success = FALSE, !.tx_failed = FALSE]

\* gz_send up to the call of nrf_gzll_add_packet_to_tx_fifo.
gz_send(n, data, len) ==
    /\ app[n].pc = "idle"
    /\ LET a == [Call("gz_send") EXCEPT !.data = data, !.len = len,
                                        !.queued = Len(gzll[n].tx_fifo)]
       IN
       IF gz_send_check(gz_state[n], data, len) # "GZ_OK"
       THEN /\ app' = [app EXCEPT ![n] = Return(a, gz_send_check(gz_state[n], data, len))]
            /\ UNCHANGED <<gz_state, gzll, hist>>
       ELSE /\ app' = [app EXCEPT ![n] = [a EXCEPT !.pc = "gz_send_enqueue"]]
            /\ gz_state' = [gz_state EXCEPT ![n] = gz_send_clear(@)]
            /\ UNCHANGED <<gzll, hist>>

\* The packet is handed to the TX FIFO; the polling budget starts.
gz_send_enqueue(n) ==
    /\ app[n].pc = "gz_send_enqueue"
    /\ LET a == Invoke(app[n], <<"nrf_gzll_add_packet_to_tx_fifo">>) IN
       IF ~tx_fifo_accepts(gzll[n])
       THEN /\ app' = [app EXCEPT ![n] = Return(a, "GZ_ERR_BUSY")]
            /\ UNCHANGED <<gz_state, gzll, hist>>
       ELSE /\ app' = [app EXCEPT ![n] = [a EXCEPT !.pc = "gz_send_poll",
                                                   !.timeout = SendTimeout,
                                                   !.enqueued = TRUE,
                                                   !.frame_pos = Len(gzll[n].tx_fifo) + 1]]
            /\ gzll' = [gzll EXCEPT ![n] =
                          nrf_gzll_add_packet_to_tx_fifo(@, app[n].data.bytes, app[n].len)]
            /\ UNCHANGED <<gz_state, hist>>

\* Faulty variant: the budget is not counted down.
gz_send_poll_no_countdown(n) ==
    /\ app[n].pc = "gz_send_poll"
    /\ LET a == app[n] IN
       IF ~(app[n].timeout > 0)
       THEN app' = [app EXCEPT ![n] = Return(a, "GZ_ERR_SEND_FAILED")]
       ELSE IF gz_state[n].tx_success
       THEN app' = [app EXCEPT ![n] = Return(a, "GZ_OK")]
       ELSE app' = [app EXCEPT ![n] = [a EXCEPT !.pc = "gz_send_poll_failed"]]
    /\ UNCHANGED <<gz_state, gzll, hist>>

\* One test of the loop condition timeout-- > 0, then of gz_state.tx_success.
\* (The decrement at 0 wraps the uint32_t; the loop has ended and the value is
\* never read again, so the counter is left at 0 here.)
gz_send_poll(n) ==
    /\ app[n].pc = "gz_send_poll"
    /\ LET a == [app[n] EXCEPT !.timeout = IF @ > 0 THEN @ - 1 ELSE 0] IN
       IF ~(app[n].timeout > 0)
       THEN app' = [app EXCEPT ![n] = Return(a, "GZ_ERR_SEND_FAILED")]
       ELSE IF gz_state[n].tx_success
       THEN app' = [app EXCEPT ![n] = Return(a, "GZ_OK")]
       ELSE app' = [app EXCEPT ![n] = [a EXCEPT !.pc = "gz_send_poll_failed"]]
    /\ UNCHANGED <<gz_state, gzll, hist>>

\* The test of gz_state.tx_failed in the same iteration.
gz_send_poll_failed(n) ==
    /\ app[n].pc = "gz_send_poll_failed"
    /\ IF gz_state[n].tx_failed
       THEN app' = [app EXCEPT ![n] = Return(@, "GZ_ERR_SEND_FAILED")]
       ELSE app' = [app EXCEPT ![n].pc = "gz_send_poll"]
    /\ UNCHANGED <<gz_state, gzll, hist>>

----------------------------------------------------------------------------
(* gz_recv *)

\* Faulty variant: initialized is not checked.
gz_recv_check_no_init(st, out_null) ==
    IF out_null THEN "GZ_ERR_INVALID_CONFIG"
    ELSE IF st.mode # GZ_MODE_HOST THEN "GZ_ERR_INVALID_CONFIG"
    ELSE "GZ_OK"

\* The precondition checks of gz_recv, in the order of the code.
gz_recv_check(st, out_null) ==
    IF ~st.initialized THEN "GZ_ERR_NOT_INITIALIZED"
    ELSE IF out_null THEN "GZ_ERR_INVALID_CONFIG"
    ELSE IF st.mode # GZ_MODE_HOST THEN "GZ_ERR_INVALID_CONFIG"
    ELSE "GZ_OK"

\* gz_recv up to the test of rx_ready ("Check if data is available").
gz_recv(n, out_null, max_len) ==
    /\ app[n].pc = "idle"
    /\ LET a == [Call("gz_recv") EXCEPT !.out_null = out_null, !.max_len = max_len,
                                        !.ready0 = gz_state[n].rx_ready,
                                        !.pkt0 = hist[n].last_pkt,
                                        !.consumed0 = hist[n].consumed,
                                        !.retry = /\ app[n].op = "gz_recv"
                                                  /\ app[n].ret = "GZ_ERR_FRAME_TOO_LARGE"
                                                  /\ ~app[n].intr]
       IN
       IF gz_recv_check(gz_state[n], out_null) # "GZ_OK"
       THEN app' = [app EXCEPT ![n] = Return(a, gz_recv_check(gz_state[n], out_null))]
       ELSE IF ~gz_state[n].rx_ready
       THEN app' = [app EXCEPT ![n] = [Return(a, "GZ_OK") EXCEPT !.out_len = 0]]
       ELSE app' = [app EXCEPT ![n] = [a EXCEPT !.pc = "gz_recv_len"]]
    /\ UNCHANGED <<gz_state, gzll, hist>>

\* Faulty variant: a packet too large for the caller is dropped.
gz_recv_len_consumes(n) ==
    /\ app[n].pc = "gz_recv_len"
    /\ IF gz_state[n].rx_length > app[n].max_len
       THEN /\ app' = [app EXCEPT ![n] = Return(@, "GZ_ERR_FRAME_TOO_LARGE")]
            /\ gz_state' = [gz_state EXCEPT ![n].rx_ready = FALSE]
       ELSE /\ app' = [app EXCEPT ![n].pc = "gz_recv_copy", ![n].i = 0]
            /\ UNCHANGED gz_state
    /\ UNCHANGED <<gzll, hist>>

\* "Check buffer size"
gz_recv_len(n) ==
    /\ app[n].pc = "gz_recv_len"
    /\ IF gz_state[n].rx_length > app[n].max_len
       THEN app' = [app EXCEPT ![n] = Return(@, "GZ_ERR_FRAME_TOO_LARGE")]
       ELSE app' = [app EXCEPT ![n].pc = "gz_recv_copy", ![n].i = 0]
    /\ UNCHANGED <<gz_state, gzll, hist>>

\* Faulty variant: every byte copied is rx_buffer[0].
gz_recv_copy_first_byte(n) ==
    /\ app[n].pc = "gz_recv_copy"
    /\ IF app[n].i < gz_state[n].rx_length
       THEN app' = [app EXCEPT ![n].out_buf[app[n].i + 1] = gz_state[n].rx_buffer[1],
                               ![n].i = (@ + 1) % 256]
       ELSE app' = [app EXCEPT ![n].pc = "gz_recv_out"]
    /\ UNCHANGED <<gz_state, gzll, hist>>

\* One test of i < rx_length and, when it holds, one byte copied (i is 0-based).
gz_recv_copy(n) ==
    /\ app[n].pc = "gz_recv_copy"
    /\ IF app[n].i < gz_state[n].rx_length
       THEN app' = [app EXCEPT ![n].out_buf[app[n].i + 1] = gz_state[n].rx_buffer[app[n].i + 1],
                               ![n].i = (@ + 1) % 256]
       ELSE app' = [app EXCEPT ![n].pc = "gz_recv_out"]
    /\ UNCHANGED <<gz_state, gzll, hist>>

\* *out_len = gz_state.rx_length
gz_recv_out(n) ==
    /\ app[n].pc = "gz_recv_out"
    /\ app' = [app EXCEPT ![n].out_len = gz_state[n].rx_length, ![n].pc = "gz_recv_clear"]
    /\ UNCHANGED <<gz_state, gzll, hist>>

\* Faulty variant: rx_ready is left set.
gz_recv_clear_keeps_ready(n) ==
    /\ app[n].pc = "gz_recv_clear"
    /\ app' = [app EXCEPT ![n] = Return(@, "GZ_OK")]
    /\ hist' = [hist EXCEPT ![n].consumed = IF app[n].intr THEN @ ELSE TRUE]
    /\ UNCHANGED <<gz_state, gzll>>

\* gz_state.rx_ready = false; return GZ_OK
gz_recv_clear(n) ==
    /\ app[n].pc = "gz_recv_clear"
    /\ app' = [app EXCEPT ![n] = Return(@, "GZ_OK")]
    /\ gz_state' = [gz_state EXCEPT ![n].rx_ready = FALSE]
    /\ hist' = [hist EXCEPT ![n].consumed = IF app[n].intr THEN @ ELSE TRUE]
    /\ UNCHANGED gzll

----------------------------------------------------------------------------
(* Events of the engine *)

\* The send is waiting: a test of the completion flags is still ahead of it.
\* (After the last test the loop only counts down and returns.)
Sending(a) == a.pc \in {"gz_send_poll", "gz_send_poll_failed"} /\ a.timeout > 0

\* The recv is between its test of rx_ready and its return.
Receiving(a) == a.pc \in {"gz_recv_len", "gz_recv_copy", "gz_recv_out", "gz_recv_clear"}

\* The engine can complete the frame at the head of its TX FIFO.
CanComplete(eng) ==
    /\ eng.enabled
    /\ eng.mode = NRF_GZLL_MODE_DEVICE
    /\ eng.tx_fifo # <<>>

\* The engine can receive a packet from the air.
CanReceive(eng) ==
    /\ eng.enabled
    /\ eng.mode = NRF_GZLL_MODE_HOST

\* What a completion adds to the history of a send in progress.
HistComplete(a, outcome) ==
    [a EXCEPT !.own = IF a.frame_pos = 1 /\ Sending(a) THEN outcome ELSE @,
              !.frame_pos = IF @ > 0 THEN @ - 1 ELSE 0]

\* What a delivery adds to the history of the last recv, in progress or returned.
HistDeliver(a) == [a EXCEPT !.intr = IF a.op = "gz_recv" THEN TRUE ELSE @]

\* The state of a Host after the engine received pkt and called the handler.
Delivered(st, eng, pkt) ==
    nrf_gzll_host_rx_data_ready(st, [eng EXCEPT !.rx_fifo = Append(@, pkt)])

\* The head frame was acknowledged: the engine calls nrf_gzll_device_tx_success.
TxSuccess(n) ==
    /\ CanComplete(gzll[n])
    /\ gzll' = [gzll EXCEPT ![n].tx_fifo = Tail(@)]
    /\ gz_state' = [gz_state EXCEPT ![n] = nrf_gzll_device_tx_success(@)]
    /\ app' = [app EXCEPT ![n] = HistComplete(@, "success")]
    /\ UNCHANGED hist

\* The head frame ran out of attempts: the engine calls nrf_gzll_device_tx_failed.
TxFailed(n) ==
    /\ CanComplete(gzll[n])
    /\ gzll' = [gzll EXCEPT ![n].tx_fifo = Tail(@)]
    /\ gz_state' = [gz_state EXCEPT ![n] = nrf_gzll_device_tx_failed(@)]
    /\ app' = [app EXCEPT ![n] = HistComplete(@, "failed")]
    /\ UNCHANGED hist

\* A packet of some peer arrived: the engine calls nrf_gzll_host_rx_data_ready.
RxDataReady(n, pkt) ==
    /\ CanReceive(gzll[n])
    /\ gz_state' = [gz_state EXCEPT ![n] = Delivered(@, gzll[n], pkt)]
    /\ hist' = [hist EXCEPT ![n].last_pkt = pkt, ![n].consumed = FALSE]
    /\ app' = [app EXCEPT ![n] = HistDeliver(@)]
    /\ UNCHANGED gzll

\* The engine finished disabling and calls nrf_gzll_disabled (which does nothing).
Disabled(n) ==
    /\ gzll[n].disable_req
    /\ gzll' = [gzll EXCEPT ![n].enabled = FALSE, ![n].disable_req = FALSE]
    /\ UNCHANGED <<gz_state, app, hist>>

----------------------------------------------------------------------------
(* One chip, its peers being the environment *)

Operation(n) ==
    \/ \E config \in Configs : gz_init(n, config)
    \/ \E ok \in BOOLEAN : gz_init_bringup(n, ok)
    \/ \E mode \in Modes : gz_set_mode(n, mode)
    \/ \E ok_init, ok_enable \in BOOLEAN : gz_set_mode_wait(n, ok_init, ok_enable)
    \/ \E s \in SendArgs : gz_send(n, s.data, s.len)
    \/ gz_send_enqueue(n)
    \/ gz_send_poll(n)
    \/ gz_send_poll_failed(n)
    \/ \E r \in RecvArgs : gz_recv(n, r.out_null, r.max_len)
    \/ gz_recv_len(n)
    \/ gz_recv_copy(n)
    \/ gz_recv_out(n)
    \/ gz_recv_clear(n)
    \/ gz_is_ready(n)
    \/ gz_flush(n)
    \/ gz_deinit(n)
    \/ gz_deinit_wait(n)

Next ==
    \/ Operation(1)
    \/ TxSuccess(1)
    \/ TxFailed(1)
    \/ \E pkt \in AirPackets : RxDataReady(1, pkt)
    \/ Disabled(1)

Spec == Init /\ [][Next]_vars

\* The application thread keeps executing the call it is in (the handlers
\* return to it); nothing is assumed of when, or whether, the engine raises
\* an event.
SendSteps(n) == gz_send_enqueue(n) \/ gz_send_poll(n) \/ gz_send_poll_failed(n)

\* The calls that wait (send, set-mode, deinit) with what brings the link up,
\* and the engine's transmit completions and disable reports.
WaitNext ==
    \/ gz_init(1, ValidConfig)
    \/ \E ok \in BOOLEAN : gz_init_bringup(1, ok)
    \/ \E mode \in Modes : gz_set_mode(1, mode)
    \/ \E ok_init, ok_enable \in BOOLEAN : gz_set_mode_wait(1, ok_init, ok_enable)
    \/ \E s \in SendArgs : gz_send(1, s.data, s.len)
    \/ gz_send_enqueue(1)
    \/ gz_send_poll(1)
    \/ gz_send_poll_failed(1)
    \/ gz_deinit(1)
    \/ gz_deinit_wait(1)
    \/ TxSuccess(1)
    \/ TxFailed(1)
    \/ Disabled(1)

FairSpec == Init /\ [][WaitNext]_vars /\ WF_vars(SendSteps(1))

----------------------------------------------------------------------------
(* A Device (node 1) paired with a Host (node 2), driven as a round-trip    *)
(* test drives them: each link is brought up once; the Device sends one     *)
(* frame at a time and the Host polls gz_recv once the send has returned.   *)
(* A frame of any length 1..32 is sent first, or after a full-length frame  *)
(* (whose bytes then fill the Host's buffer behind the shorter one).        *)

PairLens == 1..MAX_PAYLOAD_LENGTH

PairData == {[null |-> FALSE, bytes |-> Buffer(16)], [null |-> FALSE, bytes |-> Buffer(64)]}

\* The frame at the head of the Device's TX FIFO reaches the Host, whose
\* engine calls nrf_gzll_host_rx_data_ready; the acknowledgement comes back
\* and the Device's engine calls nrf_gzll_device_tx_success.
AirDeliver(d, h) ==
    /\ CanComplete(gzll[d])
    /\ CanReceive(gzll[h])
    /\ LET pkt == Head(gzll[d].tx_fifo) IN
       /\ gzll' = [gzll EXCEPT ![d].tx_fifo = Tail(@)]
       /\ gz_state' = [gz_state EXCEPT ![d] = nrf_gzll_device_tx_success(@),
                                       ![h] = Delivered(@, gzll[h], pkt)]
       /\ hist' = [hist EXCEPT ![h].last_pkt = pkt, ![h].consumed = FALSE]
       /\ app' = [app EXCEPT ![d] = HistComplete(@, "success"), ![h] = HistDeliver(@)]

BringUp(n, mode) ==
    \/ ~gz_state[n].initialized /\ gz_init(n, ValidConfig)
    \/ gz_init_bringup(n, TRUE)
    \/ ~hist[n].role_set /\ gz_set_mode(n, mode)
    \/ gz_set_mode_wait(n, TRUE, TRUE)

\* The Device sends the next frame: nothing is in flight or buffered, and the
\* frame before it, if any, was a full-length one.
PairSend ==
    /\ hist[1].role_set
    /\ hist[2].role_set
    /\ gzll[1].tx_fifo = <<>>
    /\ app[2].pc = "idle"
    /\ ~gz_state[2].rx_ready
    /\ Len(hist[2].last_pkt) \in {0, MAX_PAYLOAD_LENGTH}
    /\ \E data \in PairData, len \in PairLens : gz_send(1, data, len)

\* The Host polls once the Device's send has returned.
PairRecv ==
    /\ hist[2].role_set
    /\ app[1].pc = "idle"
    /\ gz_recv(2, FALSE, MAX_PAYLOAD_LENGTH)

PairNext ==
    \/ BringUp(1, GZ_MODE_DEVICE)
    \/ BringUp(2, GZ_MODE_HOST)
    \/ PairSend
    \/ gz_send_enqueue(1)
    \/ gz_send_poll(1)
    \/ gz_send_poll_failed(1)
    \/ PairRecv
    \/ gz_recv_len(2)
    \/ gz_recv_copy(2)
    \/ gz_recv_out(2)
    \/ gz_recv_clear(2)
    \/ AirDeliver(1, 2)
    \/ TxFailed(1)

PairSpec == Init /\ [][PairNext]_vars

----------------------------------------------------------------------------
(* Properties *)

\* The bytes and length a gz_recv handed back.
Bytes(a) == [i \in 1..a.out_len |-> a.out_buf[i]]

\* The call op of node n has returned and no other call was made since.
Returned(n, op) == app[n].pc = "idle" /\ app[n].op = op

Invoked(a, prim) == \E k \in 1..Len(a.calls) : a.calls[k] = prim

\* C1: after init and set-mode(Device), a send of length 0 or 33 returns
\* FrameTooLarge; a send of length 1..32 (no earlier frame outstanding) is
\* enqueued and returns Ok when its transmit-success completion fires during
\* the wait, SendFailed when its transmit-failure completion fires or when no
\* completion fires within the polling budget.
C1_SendResults ==
    \A n \in Nodes :
        LET a == app[n] IN
        (/\ Returned(n, "gz_send")
         /\ gz_state[n].initialized
         /\ hist[n].role_set
         /\ gz_state[n].mode = GZ_MODE_DEVICE
         /\ ~a.data.null)
        =>
        /\ a.len \in {0, MAX_PAYLOAD_LENGTH + 1} =>
              a.ret = "GZ_ERR_FRAME_TOO_LARGE" /\ ~a.enqueued
        /\ a.len \in 1..MAX_PAYLOAD_LENGTH =>
              /\ a.ret \in {"GZ_OK", "GZ_ERR_SEND_FAILED", "GZ_ERR_BUSY"}
              /\ a.ret = "GZ_ERR_BUSY" <=> ~a.enqueued
              /\ (a.enqueued /\ a.queued = 0) =>
                    /\ a.own = "success" => a.ret = "GZ_OK"
                    /\ a.own = "failed" => a.ret = "GZ_ERR_SEND_FAILED"
                    /\ a.own = "none" => a.ret = "GZ_ERR_SEND_FAILED"

\* A 32-byte send, first in the FIFO, was acknowledged during its wait.
C1_Witness ==
    /\ Returned(1, "gz_send")
    /\ hist[1].role_set
    /\ gz_state[1].mode = GZ_MODE_DEVICE
    /\ app[1].len = MAX_PAYLOAD_LENGTH
    /\ app[1].queued = 0
    /\ app[1].own = "success"
    /\ app[1].ret = "GZ_OK"

\* C2: after init and set-mode(Host), a recv that finds rx_ready false returns
\* Ok with length 0; a recv that finds a delivered packet of N bytes, with
\* maxLen >= N and no further delivery, returns Ok with exactly those N bytes
\* and length N and leaves rx_ready false; a recv called when the last
\* delivered packet had already been returned gives length 0.
C2_RecvResults ==
    \A n \in Nodes :
        LET a == app[n] IN
        /\ hist[n].last_pkt = <<>> => ~gz_state[n].rx_ready
        /\ (/\ Returned(n, "gz_recv")
            /\ gz_state[n].initialized
            /\ hist[n].role_set
            /\ gz_state[n].mode = GZ_MODE_HOST
            /\ ~a.out_null)
           =>
           /\ ~a.ready0 => a.ret = "GZ_OK" /\ a.out_len = 0
           /\ (a.ready0 /\ ~a.intr /\ a.max_len >= Len(a.pkt0)) =>
                 /\ a.ret = "GZ_OK"
                 /\ a.out_len = Len(a.pkt0)
                 /\ Bytes(a) = a.pkt0
                 /\ ~gz_state[n].rx_ready
           /\ (a.consumed0 /\ ~a.intr) => a.ret = "GZ_OK" /\ a.out_len = 0

\* A 32-byte packet was delivered and returned, and the recv after it found nothing.
C2_Witness ==
    /\ Returned(1, "gz_recv")
    /\ hist[1].role_set
    /\ gz_state[1].mode = GZ_MODE_HOST
    /\ Len(app[1].pkt0) = MAX_PAYLOAD_LENGTH
    /\ app[1].consumed0
    /\ ~app[1].intr
    /\ app[1].ret = "GZ_OK"
    /\ app[1].out_len = 0

\* C3: in the paired run, what the Host's recv returns (bytes and length) is
\* exactly what was handed to the Device's send of that frame, for every
\* length 1..32; and a send that returned Ok has had its frame delivered.
C3_RoundTrip ==
    [][/\ gz_recv_clear(2) =>
             /\ app[1].op = "gz_send"
             /\ app'[2].ret = "GZ_OK"
             /\ app'[2].out_len = app[1].len
             /\ Bytes(app'[2]) = Payload(app[1].data.bytes, app[1].len)
       /\ (gz_send_poll(1) /\ app'[1].ret = "GZ_OK") =>
             hist[2].last_pkt = Payload(app[1].data.bytes, app[1].len)]_vars

\* A 1-byte frame made the round trip after a full-length one.
C3_Witness ==
    /\ Returned(2, "gz_recv")
    /\ app[2].ret = "GZ_OK"
    /\ app[2].out_len = 1
    /\ gz_state[2].rx_buffer[MAX_PAYLOAD_LENGTH] # 0
    /\ Returned(1, "gz_send")
    /\ app[1].ret = "GZ_OK"
    /\ app[1].len = 1

\* C4: in every state, also between the steps of an operation, rx_length <= 32,
\* and rx_ready implies that rx_buffer[0..rx_length) is the last packet the
\* engine delivered and that no recv has returned it yet.
C4_RxInvariant ==
    \A n \in Nodes :
        LET st == gz_state[n] IN
        /\ st.rx_length <= MAX_PAYLOAD_LENGTH
        /\ st.rx_ready =>
              /\ ~hist[n].consumed
              /\ st.rx_length = Len(hist[n].last_pkt)
              /\ \A i \in 1..st.rx_length : st.rx_buffer[i] = hist[n].last_pkt[i]

\* A 1-byte packet arrived over an older 32-byte one while a recv was copying.
C4_Witness ==
    /\ app[1].pc = "gz_recv_copy"
    /\ app[1].intr
    /\ gz_state[1].rx_ready
    /\ gz_state[1].rx_length = 1
    /\ gz_state[1].rx_buffer[MAX_PAYLOAD_LENGTH] # 0

\* The calls of the operations other than gz_init (a call records its
\* arguments in app, which is where they are read from here).
CallExceptInit(n) ==
    /\ app[n].pc = "idle"
    /\ app'[n].op \notin {"gz_init", "none"}
    /\ \/ gz_set_mode(n, app'[n].mode)
       \/ gz_send(n, app'[n].data, app'[n].len)
       \/ gz_recv(n, app'[n].out_null, app'[n].max_len)
       \/ gz_is_ready(n)
       \/ gz_flush(n)
       \/ gz_deinit(n)

\* Node n calls gz_send, gz_recv with some arguments.
SendCall(n) ==
    /\ app[n].pc = "idle"
    /\ app'[n].op = "gz_send"
    /\ gz_send(n, app'[n].data, app'[n].len)

RecvCall(n) ==
    /\ app[n].pc = "idle"
    /\ app'[n].op = "gz_recv"
    /\ gz_recv(n, app'[n].out_null, app'[n].max_len)

\* C5: while initialized is false, set-mode, send, recv and flush return
\* NotInitialized for every argument, is-ready returns false and deinit
\* returns; none invokes an engine primitive or changes gz_state or the engine.
C5_NotInitialized ==
    [][\A n \in Nodes :
          (~gz_state[n].initialized /\ CallExceptInit(n)) =>
             /\ app'[n].pc = "idle"
             /\ app'[n].calls = <<>>
             /\ app'[n].op \in {"gz_set_mode", "gz_send", "gz_recv", "gz_flush"} =>
                   app'[n].ret = "GZ_ERR_NOT_INITIALIZED"
             /\ app'[n].op = "gz_is_ready" => ~app'[n].ready
             /\ UNCHANGED <<gz_state, gzll>>]_vars

\* After a session as Host and a deinit, recv returned NotInitialized.
C5_Witness ==
    /\ Returned(1, "gz_recv")
    /\ ~gz_state[1].initialized
    /\ hist[1].role_set
    /\ gz_state[1].mode = GZ_MODE_HOST
    /\ ~app[1].out_null
    /\ app[1].ret = "GZ_ERR_NOT_INITIALIZED"

\* What C6 says of a call refused for the role: nothing is enqueued, no flag
\* is cleared, the buffered packet stays, no engine primitive is invoked.
Refused(n) ==
    /\ app'[n].pc = "idle"
    /\ app'[n].calls = <<>>
    /\ UNCHANGED <<gz_state, gzll, hist>>

\* C6 as stated: when initialized, every send while the role is Host and every
\* recv while the role is Device returns InvalidConfig and is refused.
C6_AsStated ==
    [][\A n \in Nodes :
          /\ (/\ gz_state[n].initialized
              /\ gz_state[n].mode = GZ_MODE_HOST
              /\ SendCall(n))
             => (app'[n].ret = "GZ_ERR_INVALID_CONFIG" /\ Refused(n))
          /\ (/\ gz_state[n].initialized
              /\ gz_state[n].mode = GZ_MODE_DEVICE
              /\ RecvCall(n))
             => (app'[n].ret = "GZ_ERR_INVALID_CONFIG" /\ Refused(n))]_vars

\* C6, amended: when initialized, a send while the role is Host is refused,
\* with InvalidConfig when its length is in 1..32 (or its data pointer null)
\* and with FrameTooLarge when its length is 0 or above 32; every recv while
\* the role is Device is refused with InvalidConfig.
C6_RoleMismatch ==
    [][\A n \in Nodes :
          /\ (/\ gz_state[n].initialized
              /\ gz_state[n].mode = GZ_MODE_HOST
              /\ SendCall(n))
             => /\ Refused(n)
                /\ app'[n].ret =
                      IF app'[n].data.null \/ app'[n].len \in 1..MAX_PAYLOAD_LENGTH
                      THEN "GZ_ERR_INVALID_CONFIG"
                      ELSE "GZ_ERR_FRAME_TOO_LARGE"
          /\ (/\ gz_state[n].initialized
              /\ gz_state[n].mode = GZ_MODE_DEVICE
              /\ RecvCall(n))
             => (app'[n].ret = "GZ_ERR_INVALID_CONFIG" /\ Refused(n))]_vars

\* A 32-byte send in Host role was refused with InvalidConfig while a packet
\* was buffered.
C6_Witness ==
    /\ Returned(1, "gz_send")
    /\ gz_state[1].initialized
    /\ gz_state[1].mode = GZ_MODE_HOST
    /\ gz_state[1].rx_ready
    /\ ~app[1].data.null
    /\ app[1].len = MAX_PAYLOAD_LENGTH
    /\ app[1].ret = "GZ_ERR_INVALID_CONFIG"

\* C7: between a successful init and the next successful set-mode, no send
\* enqueues a packet (or returns as if it had been sent) and no recv returns Ok.
C7_RoleUndefinedRefuses ==
    \A n \in Nodes :
        (gz_state[n].initialized /\ ~hist[n].role_set) =>
           /\ app[n].op = "gz_send" =>
                 /\ app[n].pc \in {"idle"}
                 /\ ~app[n].enqueued
                 /\ app[n].ret \notin {"GZ_OK", "GZ_ERR_SEND_FAILED", "GZ_ERR_BUSY"}
           /\ app[n].op = "gz_recv" =>
                 /\ app[n].pc = "idle"
                 /\ app[n].ret # "GZ_OK"

\* The ranges C8 gives for a valid configuration.
InRange(config) ==
    /\ ~config.null
    /\ config.channel <= 100
    /\ config.data_rate \in {0, 1, 2}
    /\ config.max_retries <= 15
    /\ config.ack_timeout_us \in 250..4000

\* C8 as stated: an init with a configuration in range has returned Ok and
\* initialized is true.
C8_AsStated ==
    \A n \in Nodes :
        (Returned(n, "gz_init") /\ InRange(app[n].config)) =>
           (app[n].ret = "GZ_OK" /\ gz_state[n].initialized)

\* C8, amended: an init with a configuration out of range (or null) returns
\* InvalidConfig without invoking the engine and leaves gz_state and the engine
\* as they were, from any state; an init with a configuration in range goes
\* on to the engine bring-up, and returns Ok with initialized true when the
\* bring-up succeeds, Hardware with initialized false when it fails.
C8_InitValidation ==
    [][\A n \in Nodes :
          /\ LET config == app'[n].config IN
                (app[n].pc = "idle" /\ app'[n].op = "gz_init" /\ gz_init(n, config)) =>
                   IF InRange(config)
                   THEN app'[n].pc = "gz_init_bringup"
                   ELSE /\ app'[n].pc = "idle"
                        /\ app'[n].ret = "GZ_ERR_INVALID_CONFIG"
                        /\ app'[n].calls = <<>>
                        /\ UNCHANGED <<gz_state, gzll, hist>>
          /\ \A ok \in BOOLEAN :
                (app[n].pc = "gz_init_bringup" /\ gz_init_bringup(n, ok)) =>
                   /\ app'[n].pc = "idle"
                   /\ IF ok
                      THEN app'[n].ret = "GZ_OK" /\ gz_state'[n].initialized
                      ELSE app'[n].ret = "GZ_ERR_HARDWARE" /\ ~gz_state'[n].initialized]_vars

\* An init with every field at its lower bound succeeded on a link that was
\* in use as a Host.
C8_Witness ==
    /\ Returned(1, "gz_init")
    /\ app[1].config.channel = 0
    /\ app[1].config.ack_timeout_us = 250
    /\ app[1].ret = "GZ_OK"
    /\ gz_state[1].initialized
    /\ gz_state[1].mode = GZ_MODE_HOST

\* C9: in Host role, a recv that finds a packet of N bytes with maxLen < N (and
\* no further delivery) returns FrameTooLarge, writes nothing, and leaves
\* rx_ready set with the same N bytes and length; the recv that follows it with
\* maxLen >= N, no delivery in between, returns Ok with those N bytes.
C9_TooLargeKeepsPacket ==
    \A n \in Nodes :
        LET a  == app[n]
            st == gz_state[n]
        IN
        (/\ Returned(n, "gz_recv")
         /\ st.initialized
         /\ st.mode = GZ_MODE_HOST
         /\ ~a.out_null
         /\ ~a.intr)
        =>
        /\ (a.ready0 /\ a.max_len < Len(a.pkt0)) =>
              /\ a.ret = "GZ_ERR_FRAME_TOO_LARGE"
              /\ a.out_len = Unwritten
              /\ \A i \in 1..MAX_PAYLOAD_LENGTH : a.out_buf[i] = Unwritten
              /\ st.rx_ready
              /\ st.rx_length = Len(a.pkt0)
              /\ \A i \in 1..Len(a.pkt0) : st.rx_buffer[i] = a.pkt0[i]
        /\ (a.retry /\ a.max_len >= Len(a.pkt0)) =>
              /\ a.ret = "GZ_OK"
              /\ a.out_len = Len(a.pkt0)
              /\ Bytes(a) = a.pkt0

\* A 32-byte packet refused for a small buffer was returned whole by the retry.
C9_Witness ==
    /\ Returned(1, "gz_recv")
    /\ app[1].retry
    /\ ~app[1].intr
    /\ app[1].ret = "GZ_OK"
    /\ app[1].out_len = MAX_PAYLOAD_LENGTH

C11_Deinit ==
    [][\A n \in Nodes :
          /\ (app[n].pc = "idle" /\ app'[n].op = "gz_deinit" /\ gz_deinit(n)) =>
                IF ~gz_state[n].initialized
                THEN /\ app'[n].pc = "idle"
                     /\ app'[n].calls = <<>>
                     /\ UNCHANGED <<gz_state, gzll, hist>>
                ELSE /\ app'[n].pc = "gz_deinit_wait"
                     /\ app'[n].calls = <<"nrf_gzll_disable">>
                     /\ gzll[n].enabled => gzll'[n].disable_req
                     /\ UNCHANGED gz_state
          /\ (app[n].pc = "gz_deinit_wait" /\ app'[n].pc = "gz_deinit_wait") =>
                /\ gz_state'[n].initialized
                /\ gz_state'[n].mode = gz_state[n].mode
          /\ (app[n].pc = "gz_deinit_wait" /\ gz_deinit_wait(n)) =>
                /\ ~gzll[n].enabled
                /\ app'[n].pc = "idle"
                /\ gz_state'[n] = [gz_state[n] EXCEPT !.initialized = FALSE,
                                                      !.rx_ready = FALSE,
                                                      !.tx_success = FALSE,
                                                      !.tx_failed = FALSE]
                /\ UNCHANGED gzll]_vars

\* A deinit of a Host that held a packet no recv had returned: the engine was
\* disabled and the flags are clear.
C11_Witness ==
    /\ Returned(1, "gz_deinit")
    /\ Invoked(app[1], "nrf_gzll_disable")
    /\ ~gz_state[1].initialized
    /\ ~gz_state[1].rx_ready
    /\ gz_state[1].mode = GZ_MODE_HOST
    /\ hist[1].last_pkt # <<>>
    /\ ~hist[1].consumed

\* C12: a call that has returned NotInitialized, InvalidConfig or
\* FrameTooLarge has invoked no engine primitive.
C12_NoEngineCallOnViolation ==
    \A n \in Nodes :
        (/\ app[n].pc = "idle"
         /\ app[n].op \in {"gz_init", "gz_set_mode", "gz_send", "gz_recv", "gz_flush"}
         /\ app[n].ret \in {"GZ_ERR_NOT_INITIALIZED", "GZ_ERR_INVALID_CONFIG",
                            "GZ_ERR_FRAME_TOO_LARGE"})
        => app[n].calls = <<>>

\* C13: from a successful init until a set-mode succeeds, the radio is not enabled.
C13_RadioOffAfterInit ==
    \A n \in Nodes :
        (gz_state[n].initialized /\ ~hist[n].role_set) => ~gzll[n].enabled

\* C14: a send that returned Ok had its own frame acknowledged during its wait.
C14_OkIsOwnAck ==
    \A n \in Nodes :
        (Returned(n, "gz_send") /\ app[n].ret = "GZ_OK") => app[n].own = "success"

\* C15: every send returns; once its packet is enqueued, each test of the loop
\* condition uses one unit of the polling budget, so it returns within the
\* budget whether or not a completion handler ever fires, and the first test
\* that finds tx_success (tx_failed) set returns Ok (SendFailed); set-mode and
\* deinit leave their wait only when the engine is not enabled.
C15_Termination ==
    /\ \A n \in Nodes :
          (app[n].pc \in {"gz_send_enqueue", "gz_send_poll", "gz_send_poll_failed"})
             ~> (app[n].pc = "idle")
    /\ [][\A n \in Nodes :
             /\ app'[n].pc = "gz_send_poll" => app'[n].timeout <= SendTimeout
             /\ (app[n].pc = "gz_send_poll" /\ gz_send_poll(n)) =>
                   /\ app[n].timeout = 0 =>
                         app'[n].pc = "idle" /\ app'[n].ret = "GZ_ERR_SEND_FAILED"
                   /\ (app[n].timeout > 0 /\ gz_state[n].tx_success) =>
                         app'[n].pc = "idle" /\ app'[n].ret = "GZ_OK"
                   /\ app'[n].pc # "idle" => app'[n].timeout = app[n].timeout - 1
             /\ (app[n].pc = "gz_send_poll_failed" /\ gz_send_poll_failed(n)) =>
                   IF gz_state[n].tx_failed
                   THEN app'[n].pc = "idle" /\ app'[n].ret = "GZ_ERR_SEND_FAILED"
                   ELSE app'[n].pc = "gz_send_poll" /\ app'[n].timeout = app[n].timeout
             /\ (app[n].pc \in {"gz_set_mode_wait", "gz_deinit_wait"} /\ app'[n].pc = "idle")
                   => ~gzll[n].enabled]_vars

\* A send used up its budget with no completion of any frame.
C15_Witness ==
    /\ Returned(1, "gz_send")
    /\ app[1].enqueued
    /\ app[1].timeout = 0
    /\ app[1].own = "none"
    /\ app[1].ret = "GZ_ERR_SEND_FAILED"
    /\ ~gz_state[1].tx_success
    /\ ~gz_state[1].tx_failed

\* C16: a set-mode on an initialized link, with mode Device or Host, leaves its
\* wait with one of two results: Ok, the engine re-initialized in the requested
\* mode and enabled, and gz_state.mode the requested mode; or Hardware, when
\* nrf_gzll_init or nrf_gzll_enable fails, with gz_state.mode as it was and
\* the radio not enabled.
C16_SetMode ==
    [][\A n \in Nodes :
          \A ok_init, ok_enable \in BOOLEAN :
             (/\ app[n].pc = "gz_set_mode_wait"
              /\ app[n].mode \in {GZ_MODE_DEVICE, GZ_MODE_HOST}
              /\ gz_set_mode_wait(n, ok_init, ok_enable)) =>
                /\ app'[n].pc = "idle"
                /\ gz_state[n].initialized /\ gz_state'[n].initialized
                /\ IF ok_init /\ ok_enable
                   THEN /\ app'[n].ret = "GZ_OK"
                        /\ gz_state'[n].mode = app[n].mode
                        /\ gzll'[n].enabled
                        /\ gzll'[n].mode = (IF app[n].mode = GZ_MODE_HOST
                                            THEN NRF_GZLL_MODE_HOST
                                            ELSE NRF_GZLL_MODE_DEVICE)
                        /\ app'[n].calls =
                              <<"nrf_gzll_disable", "nrf_gzll_init", "nrf_gzll_enable">>
                   ELSE /\ app'[n].ret = "GZ_ERR_HARDWARE"
                        /\ gz_state'[n] = gz_state[n]
                        /\ ~gzll'[n].enabled]_vars

\* A Device became a Host; and a switch back failed at the enable, which left
\* the role Host on an engine set up as Device.
C16_Witness ==
    /\ Returned(1, "gz_set_mode")
    /\ app[1].mode = GZ_MODE_DEVICE
    /\ app[1].ret = "GZ_ERR_HARDWARE"
    /\ gz_state[1].mode = GZ_MODE_HOST
    /\ gzll[1].mode = NRF_GZLL_MODE_DEVICE
    /\ hist[1].role_set

\* C17: a send that passed its checks (Device role, data not null, length in
\* 1..32) and finds the engine's TX FIFO full returns Busy from the enqueue
\* step, without a polling step; the FIFO is as it was, and tx_success and
\* tx_failed are both false.
C17_Busy ==
    [][\A n \in Nodes :
          (/\ app[n].pc = "gz_send_enqueue"
           /\ Len(gzll[n].tx_fifo) = NRF_GZLL_CONST_FIFO_LENGTH
           /\ gz_send_enqueue(n)) =>
             /\ gz_state[n].mode = GZ_MODE_DEVICE
             /\ app[n].len \in 1..MAX_PAYLOAD_LENGTH
             /\ app'[n].pc = "idle"
             /\ app'[n].ret = "GZ_ERR_BUSY"
             /\ app'[n].timeout = 0
             /\ ~app'[n].enqueued
             /\ gzll'[n] = gzll[n]
             /\ ~gz_state'[n].tx_success
             /\ ~gz_state'[n].tx_failed]_vars

\* A fourth send, after three that timed out, was turned away.
C17_Witness ==
    /\ Returned(1, "gz_send")
    /\ app[1].ret = "GZ_ERR_BUSY"
    /\ app[1].queued = NRF_GZLL_CONST_FIFO_LENGTH
    /\ Len(gzll[1].tx_fifo) = NRF_GZLL_CONST_FIFO_LENGTH
    /\ ~gz_state[1].tx_success
    /\ ~gz_state[1].tx_failed

\* C18: an init whose engine bring-up fails returns Hardware with initialized,
\* rx_ready, tx_success and tx_failed all false, and has programmed nothing.
C18_HardwareFailure ==
    [][\A n \in Nodes :
          (app[n].pc = "gz_init_bringup" /\ gz_init_bringup(n, FALSE)) =>
             /\ app'[n].pc = "idle"
             /\ app'[n].ret = "GZ_ERR_HARDWARE"
             /\ app'[n].calls = <<"nrf_gzll_init">>
             /\ app'[n].params = NoParams
             /\ ~gz_state'[n].initialized
             /\ ~gz_state'[n].rx_ready
             /\ ~gz_state'[n].tx_success
             /\ ~gz_state'[n].tx_failed]_vars

\* C19: what a recv handed back with Ok and a length above 0 is one of the
\* packets the engine delivered, bytes and length.
C19_OnePacket ==
    \A n \in Nodes :
        (Returned(n, "gz_recv") /\ app[n].ret = "GZ_OK" /\ app[n].out_len > 0)
        => Bytes(app[n]) \in AirPackets

\* C20: tx_success and tx_failed are never both true.
C20_OneOutcome ==
    \A n \in Nodes : ~(gz_state[n].tx_success /\ gz_state[n].tx_failed)

====
